---- MODULE Spec2Model ----
(***************************************************************************)
(* Model of the string registry of src/main.py: the analyzer, the          *)
(* in-memory store `db`, the five endpoints and the natural-language       *)
(* parser.  Text is a sequence of one-character strings; Python values     *)
(* that may be None are sequences of length 0 (None) or 1 (a value).       *)
(***************************************************************************)
EXTENDS Integers, Sequences, FiniteSets, TLC

VARIABLES db, log, th

vars == <<db, log, th>>

(***************************** bounds ***************************************)
\* number of most recent request/response pairs kept in the log
MaxLog == 2
\* the same, when only create / get / delete requests are made
MaxHist == 3
\* timestamps the clock may hand to a create call
MaxTime == 2

(***************************** text *****************************************)
V_empty == <<>>
V_a == <<"a">>
V_A == <<"A">>
V_ab == <<"a", "b">>
V_a_b == <<"a", " ", "b">>
V_level == <<"l", "e", "v", "e", "l">>
V_Racecar == <<"R", "a", "c", "e", "c", "a", "r">>
V_two_sp == <<"a", " ", " ", "b">>

\* values submitted to create / get / delete
Values == {V_empty, V_a, V_A}
\* texts handed to the analyzer directly
Texts == {V_empty, V_a, V_ab, V_a_b, V_level, V_Racecar, V_two_sp}

Q_xyz == <<"x", "y", "z">>
Q_longer3 == <<"s", "t", "r", "i", "n", "g", "s", " ", "l", "o", "n", "g", "e", "r", " ", "t", "h", "a", "n", " ", "3">>
Q_longer_d == <<"s", "t", "r", "i", "n", "g", "s", " ", "l", "o", "n", "g", "e", "r", " ", "t", "h", "a", "n", " ", "d">>
Q_single_pal == <<"s", "i", "n", "g", "l", "e", " ", "w", "o", "r", "d", " ", "p", "a", "l", "i", "n", "d", "r", "o", "m", "i", "c", " ", "s", "t", "r", "i", "n", "g", "s">>
Q_letter_z == <<"c", "o", "n", "t", "a", "i", "n", "i", "n", "g", " ", "t", "h", "e", " ", "l", "e", "t", "t", "e", "r", " ", "z">>
Q_letterw == <<"c", "o", "n", "t", "a", "i", "n", "i", "n", "g", " ", "t", "h", "e", " ", "l", "e", "t", "t", "e", "r", "w">>
Q_Palindrome == <<"P", "a", "l", "i", "n", "d", "r", "o", "m", "e">>
Q_longer10_single == <<"o", "n", "e", " ", "w", "o", "r", "d", " ", "s", "t", "r", "i", "n", "g", "s", " ", "l", "o", "n", "g", "e", "r", " ", "t", "h", "a", "n", " ", "1", "0">>

\* free-text queries sent to the natural-language endpoint
Queries == {Q_xyz, Q_longer3, Q_longer_d, Q_single_pal, Q_letter_z, Q_letterw,
            Q_Palindrome, Q_longer10_single}

UpperChars == <<"A","B","C","D","E","F","G","H","I","J","K","L","M",
                "N","O","P","Q","R","S","T","U","V","W","X","Y","Z">>
LowerChars == <<"a","b","c","d","e","f","g","h","i","j","k","l","m",
                "n","o","p","q","r","s","t","u","v","w","x","y","z">>
DigitChars == <<"0","1","2","3","4","5","6","7","8","9">>
Whitespace == {" ", "\t", "\n", "\r"}

Range(s) == {s[i] : i \in 1..Len(s)}

\* str.lower() on one character
lower_char(c) ==
    IF \E i \in 1..Len(UpperChars) : UpperChars[i] = c
    THEN LowerChars[CHOOSE i \in 1..Len(UpperChars) : UpperChars[i] = c]
    ELSE c

\* str.lower()
str_lower(s) == [i \in 1..Len(s) |-> lower_char(s[i])]

\* s[::-1]
str_reverse(s) == [i \in 1..Len(s) |-> s[Len(s) + 1 - i]]

\* len(s.split()): number of maximal runs of non-whitespace characters
str_split_count(s) ==
    Cardinality({i \in 1..Len(s) :
                   /\ s[i] \notin Whitespace
                   /\ (i = 1 \/ s[i - 1] \in Whitespace)})

\* `needle in hay` for strings
str_contains(hay, needle) ==
    \E i \in 0..(Len(hay) - Len(needle)) :
        \A j \in 1..Len(needle) : hay[i + j] = needle[j]

\* sha256(s.encode()).hexdigest(): a digest of the exact characters of s;
\* distinct texts have distinct digests (collisions are out of scope)
sha256_hexdigest(s) == <<"sha256", s>>

(***************************** Python values ********************************)
None == << >>
Some(v) == <<v>>

\* outcome of a call: a returned value or a raised exception
Return(v) == [kind |-> "return", value |-> v]
ReturnNone == [kind |-> "return_none"]
Raise(exc, status) == [kind |-> "raise", exc |-> exc, status |-> status]

\* an exception that is not an HTTPException reaches the client as a 500
AttributeError == Raise("AttributeError", 500)
ValueError == Raise("ValueError", 500)
KeyError == Raise("KeyError", 500)
RuntimeError == Raise("RuntimeError", 500)
HTTPException(status) == Raise("HTTPException", status)

\* attributes of a str object that the source could mean
StrAttrs == {"lower", "split", "encode", "splitlines"}

(***************************** analyzer *************************************)
\* the for loop of analyze_string: the return statement is inside the loop
\* body, so the call returns in the first iteration; with no iteration the
\* function falls off its end and returns None
analyze_loop(s, length, is_palindrome, unique_characters, words_count, hash_value) ==
    IF Len(s) = 0
    THEN ReturnNone
    ELSE LET char == s[1]
             char_freq == (char :> 1)
         IN Return([length |-> length,
                    is_palindrome |-> is_palindrome,
                    unique_character |-> unique_characters,
                    word_count |-> words_count,
                    sha256_hash |-> hash_value,
                    character_frequency_map |-> char_freq])

analyze_string(s) ==
    LET lower == str_lower(s)
        length == Len(s)
        is_palindrome == lower = str_reverse(lower)
        unique_characters == Cardinality(Range(s))
    IN  \* line 22 calls s.splits(), which str does not have
        IF "splits" \notin StrAttrs
        THEN AttributeError
        ELSE analyze_loop(s, length, is_palindrome, unique_characters,
                          str_split_count(s), sha256_hexdigest(s))

(***************************** store *****************************************)
\* db is a Python dict: an insertion-ordered sequence of key/value entries
\* with pairwise distinct keys
EmptyDict == << >>

dict_keys(d) == {d[i].key : i \in 1..Len(d)}

dict_has(d, k) == k \in dict_keys(d)

dict_index(d, k) == CHOOSE i \in 1..Len(d) : d[i].key = k

\* d.get(k): the value or None
dict_get(d, k) == IF dict_has(d, k) THEN Some(d[dict_index(d, k)].val) ELSE None

\* d[k] = v: an existing key keeps its position, a new key goes last
dict_set(d, k, v) ==
    IF dict_has(d, k)
    THEN [d EXCEPT ![dict_index(d, k)] = [key |-> k, val |-> v]]
    ELSE Append(d, [key |-> k, val |-> v])

\* del d[k] for a key that is present
dict_del(d, k) ==
    LET n == dict_index(d, k)
    IN [i \in 1..(Len(d) - 1) |-> IF i < n THEN d[i] ELSE d[i + 1]]

\* d.values() in iteration order
dict_values(d) == [i \in 1..Len(d) |-> d[i].val]

(***************************** create ****************************************)
\* the request body after pydantic validation
StringInput(v) == [type |-> "StringInput", attrs |-> {"value"}, value |-> v]

\* the handler's parameter is named `inpute`; the name `input` used in its
\* body is not a local and resolves to the builtin function input
BuiltinInput == [type |-> "builtin_function_or_method", attrs |-> {}]

\* datetime.utcnow().isoformat() + 'Z'
now_iso(now) == <<"iso", now, "Z">>

\* lines 43-54: validation, analysis and the duplicate test; the outcome is
\* an exception or the computed properties
create_check(d, inpute) ==
    LET input == BuiltinInput
    IN  \* line 43 evaluates input.value
        IF "value" \notin input.attrs
        THEN AttributeError
        ELSE IF input.value = V_empty
        THEN HTTPException(400)
        ELSE LET props == analyze_string(input.value)
             IN IF props.kind = "raise"
                THEN props
                ELSE IF props.kind = "return_none"
                THEN Raise("TypeError", 500)
                ELSE IF dict_has(d, props.value.sha256_hash)
                THEN HTTPException(409)
                ELSE props

\* lines 57-71: build the record and store it under its hash
create_insert(d, inpute, props, now) ==
    LET input == BuiltinInput
        record == [id |-> props.sha256_hash,
                   value |-> input.value,
                   properties |-> props,
                   created_at |-> now_iso(now)]
    IN  \* line 62 evaluates input.value
        IF "value" \notin input.attrs
        THEN [db |-> d, res |-> AttributeError]
        ELSE [db |-> dict_set(d, props.sha256_hash, record), res |-> Return(record)]

\* create_string storing a record under the hash before any validation
create_string_store_first(d, inpute, now) ==
    LET key == sha256_hexdigest(inpute.value)
        record == [id |-> key, value |-> inpute.value, created_at |-> now_iso(now)]
        checked == create_check(d, inpute)
    IN [db |-> dict_set(d, key, record),
        res |-> IF checked.kind = "raise" THEN checked ELSE Return(record)]

create_string(d, inpute, now) ==
    LET checked == create_check(d, inpute)
    IN IF checked.kind = "raise"
       THEN [db |-> d, res |-> checked]
       ELSE create_insert(d, inpute, checked.value, now)

(***************************** get / delete **********************************)
find_strings_record(d, s) == dict_get(d, sha256_hexdigest(s))

get_string(d, string_value) ==
    LET record == find_strings_record(d, string_value)
    IN IF record = None
       THEN [db |-> d, res |-> HTTPException(404)]
       ELSE [db |-> d, res |-> Return(record[1])]

\* lines 205-208, run with the record that line 204 found
delete_finish(d, record) ==
    IF record = None
    THEN [db |-> d, res |-> HTTPException(404)]
    ELSE IF ~ dict_has(d, record[1].id)
    THEN [db |-> d, res |-> KeyError]
    ELSE [db |-> dict_del(d, record[1].id), res |-> Return(EmptyDict)]

delete_string(d, string_value) ==
    delete_finish(d, find_strings_record(d, string_value))

(***************************** list ******************************************)
\* the query parameters of GET /strings; each is None or Some(value)
Predicate(ip, mn, mx, wc, cc) ==
    [is_palindrome |-> ip, min_length |-> mn, max_length |-> mx,
     word_count |-> wc, contains_character |-> cc]

NoFilter == Predicate(None, None, None, None, None)

Predicates == {NoFilter,
               Predicate(Some(TRUE), None, None, None, None),
               Predicate(None, Some(6), None, None, None),
               Predicate(None, Some(10), Some(5), None, None),
               Predicate(None, None, None, Some(1), None),
               Predicate(Some(FALSE), None, Some(3), None, Some(V_a))}

\* the five `continue` tests of lines 100-109
list_skips(record, p) ==
    LET props == record.properties
    IN \/ (p.is_palindrome # None /\ props.is_palindrome # p.is_palindrome[1])
       \/ (p.min_length # None /\ props.length < p.min_length[1])
       \/ (p.max_length # None /\ props.length > p.max_length[1])
       \/ (p.word_count # None /\ props.word_count # p.word_count[1])
       \/ (p.contains_character # None
             /\ ~ str_contains(record.value, p.contains_character[1]))

\* lines 114-124: the non-null parameters
filters_applied(p) ==
    (IF p.is_palindrome # None THEN "is_palindrome" :> p.is_palindrome[1] ELSE EmptyDict)
    @@ (IF p.min_length # None THEN "min_length" :> p.min_length[1] ELSE EmptyDict)
    @@ (IF p.max_length # None THEN "max_length" :> p.max_length[1] ELSE EmptyDict)
    @@ (IF p.word_count # None THEN "word_count" :> p.word_count[1] ELSE EmptyDict)
    @@ (IF p.contains_character # None
        THEN "contains_character" :> p.contains_character[1] ELSE EmptyDict)

\* the loop of get_all_strings: the summary and the return statement are
\* inside the loop body, so the call returns at the first record that is not
\* skipped; when every record is skipped, or there is none, the function
\* falls off its end and returns None
RECURSIVE list_loop(_, _, _, _)
list_loop(values, i, results, p) ==
    IF i > Len(values)
    THEN ReturnNone
    ELSE IF list_skips(values[i], p)
    THEN list_loop(values, i + 1, results, p)
    ELSE LET results2 == Append(results, values[i])
         IN Return([data |-> results2,
                    count |-> Len(results2),
                    filter_applied |-> filters_applied(p)])

get_all_strings(d, p) ==
    [db |-> d, scan |-> TRUE, res |-> list_loop(dict_values(d), 1, << >>, p)]

(***************************** natural language ******************************)
P_single_word == <<"s", "i", "n", "g", "l", "e", " ", "w", "o", "r", "d">>
P_one_word == <<"o", "n", "e", " ", "w", "o", "r", "d">>
P_palindromic == <<"p", "a", "l", "i", "n", "d", "r", "o", "m", "i", "c">>
P_palindrome == <<"p", "a", "l", "i", "n", "d", "r", "o", "m", "e">>
P_longer == <<"s", "t", "r", "i", "n", "g", "s", " ", "l", "o", "n", "g", "e", "r", " ", "t", "h", "a", "n">>
P_longer_sp == <<"s", "t", "r", "i", "n", "g", "s", " ", "l", "o", "n", "g", "e", "r", " ", "t", "h", "a", "n", " ">>
P_letter == <<"c", "o", "n", "t", "a", "i", "n", "i", "n", "g", " ", "t", "h", "e", " ", "l", "e", "t", "t", "e", "r">>

\* text[from..] starts with lit
str_at(text, off, lit) ==
    /\ off + Len(lit) <= Len(text)
    /\ \A j \in 1..Len(lit) : text[off + j] = lit[j]

\* end of the maximal run of characters of cls that starts at position from
RECURSIVE run_end(_, _, _)
run_end(text, from, cls) ==
    IF from + 1 <= Len(text) /\ text[from + 1] \in cls
    THEN run_end(text, from + 1, cls)
    ELSE from

\* re.search of a pattern made of the literal lit followed by one group over
\* the characters cls, repeated greedily (x+) when plus, else once (x):
\* None, or Some(group(1)) of the leftmost match
re_search(text, lit, cls, plus) ==
    LET hits == {off \in 0..Len(text) :
                    /\ str_at(text, off, lit)
                    /\ off + Len(lit) + 1 <= Len(text)
                    /\ text[off + Len(lit) + 1] \in cls}
    IN IF hits = {}
       THEN None
       ELSE LET off == CHOOSE h \in hits : \A g \in hits : h <= g
                first == off + Len(lit) + 1
                last == IF plus THEN run_end(text, first, cls) ELSE first
            IN Some(SubSeq(text, first, last))

\* r'strings longer than (d+)': the group is one or more letters d
re_longer_than(text) == re_search(text, P_longer_sp, {"d"}, TRUE)

\* r'containing the letter(w)': the group is the letter w
re_letter(text) == re_search(text, P_letter, {"w"}, FALSE)

digit_value(c) == (CHOOSE i \in 1..Len(DigitChars) : DigitChars[i] = c) - 1

RECURSIVE decimal_value(_)
decimal_value(s) ==
    IF Len(s) = 0 THEN 0
    ELSE 10 * decimal_value(SubSeq(s, 1, Len(s) - 1)) + digit_value(s[Len(s)])

\* int(s) for a string without sign, blanks or underscores
py_int(s) ==
    IF Len(s) > 0 /\ \A i \in 1..Len(s) : s[i] \in Range(DigitChars)
    THEN Return(decimal_value(s))
    ELSE ValueError

\* lines 135-158: the filters the four patterns set, or the exception that
\* int() raises on the matched group
parse_patterns(query) ==
    LET lower == str_lower(query)
        f_word == IF str_contains(lower, P_single_word) \/ str_contains(lower, P_one_word)
                  THEN "word_count" :> 1 ELSE EmptyDict
        f_pal == IF str_contains(lower, P_palindromic) \/ str_contains(lower, P_palindrome)
                 THEN "is_palindrome" :> TRUE ELSE EmptyDict
        m_len == IF str_contains(lower, P_longer) THEN re_longer_than(lower) ELSE None
        n_len == IF m_len # None THEN py_int(m_len[1]) ELSE ReturnNone
        f_len == IF n_len.kind = "return"
                 THEN "min_length" :> (n_len.value + 1) ELSE EmptyDict
        m_chr == IF str_contains(lower, P_letter) THEN re_letter(lower) ELSE None
        f_chr == IF m_chr # None THEN "contains_character" :> m_chr[1] ELSE EmptyDict
    IN IF n_len.kind = "raise"
       THEN n_len
       ELSE Return(f_word @@ f_pal @@ f_len @@ f_chr)

\* lines 160-168: no filter set is a 400, min_length above max_length a 422
parse_validate(filters) ==
    LET get(k) == IF k \in DOMAIN filters THEN Some(filters[k]) ELSE None
    IN IF DOMAIN filters = {}
       THEN HTTPException(400)
       ELSE IF get("min_length") # None /\ get("max_length") # None
               /\ filters["min_length"] > filters["max_length"]
       THEN HTTPException(422)
       ELSE Return(filters)

parse_natural_language(query) ==
    LET parsed == parse_patterns(query)
    IN IF parsed.kind = "raise"
       THEN parsed
       ELSE parse_validate(parsed.value)

\* lines 179-188: the five `continue` tests on the parsed filters
nl_skips(record, filters) ==
    LET prop == record.properties
        has(k) == k \in DOMAIN filters
    IN \/ (has("is_palindrome") /\ prop.is_palindrome # filters["is_palindrome"])
       \/ (has("min_length") /\ prop.length < filters["min_length"])
       \/ (has("max_length") /\ prop.length > filters["max_length"])
       \/ (has("word_count") /\ prop.word_count # filters["word_count"])
       \/ (has("contains_character")
             /\ ~ str_contains(record.value, filters["contains_character"]))

RECURSIVE nl_loop(_, _, _, _)
nl_loop(values, i, results, filters) ==
    IF i > Len(values)
    THEN results
    ELSE nl_loop(values, i + 1,
                 IF nl_skips(values[i], filters) THEN results
                 ELSE Append(results, values[i]),
                 filters)

filter_by_natural_language(d, query) ==
    LET filters == parse_natural_language(query)
    IN IF filters.kind = "raise"
       THEN [db |-> d, scan |-> FALSE, res |-> filters]
       ELSE LET results == nl_loop(dict_values(d), 1, << >>, filters.value)
            IN [db |-> d,
                scan |-> TRUE,
                res |-> Return([data |-> results,
                                count |-> Len(results),
                                interpreted_query |->
                                    [original |-> query,
                                     parsed_filters |-> filters.value]])]

(***************************** requests, one at a time ***********************)
Times == 1..MaxTime

\* one request: what was asked, the store before it, whether the handler
\* iterated over the store, and the outcome
LogEntry(op, arg, pre, scan, res) ==
    [op |-> op, arg |-> arg, pre |-> pre, scan |-> scan, res |-> res]

\* the log keeps the n most recent request/response pairs
Push(l, e, n) == IF Len(l) < n THEN Append(l, e) ELSE Append(Tail(l), e)

Threads == {1, 2}

\* a pool thread: the request it runs, its position and locals, and what is
\* known of the calls that overlapped it (conc: their threads, nconc: their
\* number, counted up to 2, first: none was running when it started, snap:
\* the store then)
Idle == [pc |-> "idle", op |-> "none", arg |-> V_empty, pre |-> FALSE,
         rec |-> None, res |-> ReturnNone, conc |-> {},
         nconc |-> 0, first |-> TRUE, snap |-> EmptyDict,
         filters |-> EmptyDict, itlen |-> 0, it |-> 0, results |-> << >>]

Init ==
    /\ db = EmptyDict
    /\ log = << >>
    /\ th = [t \in Threads |-> Idle]

Handle(op, arg, out, n) ==
    /\ db' = out.db
    /\ log' = Push(log, LogEntry(op, arg, db,
                                 "scan" \in DOMAIN out /\ out.scan, out.res), n)
    /\ UNCHANGED th

CreateString(v, now, n) ==
    Handle("create", v, create_string(db, StringInput(v), now), n)

GetString(v, n) == Handle("get", v, get_string(db, v), n)

DeleteString(v, n) == Handle("delete", v, delete_string(db, v), n)

GetAllStrings(p, n) == Handle("list", p, get_all_strings(db, p), n)

FilterByNaturalLanguage(q, n) ==
    Handle("nl", q, filter_by_natural_language(db, q), n)

\* a direct call of the analyzer
AnalyzeString(s, n) == Handle("analyze", s, [db |-> db, res |-> analyze_string(s)], n)

Next ==
    \/ \E v \in Values, now \in Times : CreateString(v, now, MaxLog)
    \/ \E v \in Values : GetString(v, MaxLog)
    \/ \E v \in Values : DeleteString(v, MaxLog)
    \/ \E p \in Predicates : GetAllStrings(p, MaxLog)
    \/ \E q \in Queries : FilterByNaturalLanguage(q, MaxLog)
    \/ \E s \in Texts : AnalyzeString(s, MaxLog)

Spec == Init /\ [][Next]_vars

\* create / get / delete only, with a longer log
NextStore ==
    \/ \E v \in Values, now \in Times : CreateString(v, now, MaxHist)
    \/ \E v \in Values : GetString(v, MaxHist)
    \/ \E v \in Values : DeleteString(v, MaxHist)

SpecStore == Init /\ [][NextStore]_vars

(***************************** concurrent requests ***************************)
\* Handlers are plain `def` functions, which the server runs on a thread
\* pool; db is shared and no lock is taken.  A thread interleaves with the
\* others between the steps below.
Running(t) == th[t].pc \notin {"idle", "done"}

\* a request arrives on an idle thread
Call(t, op, v) ==
    /\ th[t].pc = "idle"
    /\ th' = [u \in Threads |->
                IF u = t
                THEN [Idle EXCEPT
                        !.pc = "start", !.op = op, !.arg = v,
                        !.pre = (op \in {"create", "get", "delete"}
                                   /\ dict_has(db, sha256_hexdigest(v))),
                        !.conc = {w \in Threads \ {t} : Running(w)},
                        !.nconc = Cardinality({w \in Threads \ {t} : Running(w)}),
                        !.first = (\A w \in Threads \ {t} : ~ Running(w)),
                        !.snap = db]
                ELSE IF Running(u)
                THEN [th[u] EXCEPT !.conc = @ \cup {t},
                                   !.nconc = IF @ < 2 THEN @ + 1 ELSE @]
                ELSE th[u]]
    /\ UNCHANGED <<db, log>>

\* create_string: lines 43-54, then lines 57-71
CreateStep(t, now) ==
    /\ th[t].op = "create"
    /\ Running(t)
    /\ IF th[t].pc = "start"
       THEN LET checked == create_check(db, StringInput(th[t].arg))
            IN /\ th' = [th EXCEPT ![t] =
                           IF checked.kind = "raise"
                           THEN [@ EXCEPT !.pc = "done", !.res = checked]
                           ELSE [@ EXCEPT !.pc = "insert", !.rec = Some(checked.value)]]
               /\ db' = db
       ELSE LET out == create_insert(db, StringInput(th[t].arg), th[t].rec[1], now)
            IN /\ th' = [th EXCEPT ![t] = [@ EXCEPT !.pc = "done", !.res = out.res]]
               /\ db' = out.db
    /\ UNCHANGED log

\* get_string: one dictionary lookup
GetStep(t) ==
    /\ th[t].op = "get"
    /\ Running(t)
    /\ th' = [th EXCEPT ![t] =
                [@ EXCEPT !.pc = "done", !.res = get_string(db, th[t].arg).res]]
    /\ UNCHANGED <<db, log>>

\* delete_string: line 204, then lines 205-208
DeleteStep(t) ==
    /\ th[t].op = "delete"
    /\ Running(t)
    /\ IF th[t].pc = "start"
       THEN /\ th' = [th EXCEPT ![t] =
                        [@ EXCEPT !.pc = "found",
                                  !.rec = find_strings_record(db, th[t].arg)]]
            /\ db' = db
       ELSE LET out == delete_finish(db, th[t].rec)
            IN /\ th' = [th EXCEPT ![t] = [@ EXCEPT !.pc = "done", !.res = out.res]]
               /\ db' = out.db
    /\ UNCHANGED log

\* one call of next() on the iterator of db.values() and the loop body that
\* follows it.  The iterator raises RuntimeError when the dictionary's size
\* is no longer the size it had when the loop began; positions are those of
\* the current iteration order.
scan_next(d, op, arg, st) ==
    IF Len(d) # st.itlen
    THEN [st EXCEPT !.pc = "done", !.res = RuntimeError]
    ELSE IF st.it > Len(d)
    THEN [st EXCEPT !.pc = "done",
                    !.res = IF op = "list"
                            THEN ReturnNone
                            ELSE Return([data |-> st.results,
                                         count |-> Len(st.results),
                                         interpreted_query |->
                                             [original |-> arg,
                                              parsed_filters |-> st.filters]])]
    ELSE LET record == dict_values(d)[st.it]
         IN IF op = "list"
            THEN IF list_skips(record, arg)
                 THEN [st EXCEPT !.it = @ + 1]
                 ELSE [st EXCEPT !.pc = "done",
                                 !.res = Return([data |-> Append(st.results, record),
                                                 count |-> Len(st.results) + 1,
                                                 filter_applied |-> filters_applied(arg)])]
            ELSE [st EXCEPT !.it = @ + 1,
                            !.results = IF nl_skips(record, st.filters)
                                        THEN @ ELSE Append(@, record)]

\* get_all_strings and filter_by_natural_language: the translation (natural
\* language only) and the start of the loop, then one record per step
ScanStep(t) ==
    /\ th[t].op \in {"list", "nl"}
    /\ Running(t)
    /\ IF th[t].pc = "start"
       THEN LET filters == IF th[t].op = "nl"
                           THEN parse_natural_language(th[t].arg)
                           ELSE Return(EmptyDict)
            IN th' = [th EXCEPT ![t] =
                        IF filters.kind = "raise"
                        THEN [@ EXCEPT !.pc = "done", !.res = filters]
                        ELSE [@ EXCEPT !.pc = "iter", !.filters = filters.value,
                                       !.itlen = Len(db), !.it = 1]]
       ELSE th' = [th EXCEPT ![t] = scan_next(db, th[t].op, th[t].arg, th[t])]
    /\ UNCHANGED <<db, log>>

\* the response has been sent; the thread goes back to the pool.  The log of
\* the concurrent runs keeps the finished create requests of non-empty
\* values, each up to the next finished delete of its value.
Finish(t) ==
    /\ th[t].pc = "done"
    /\ th' = [th EXCEPT ![t] = Idle]
    /\ log' = IF th[t].op = "create" /\ th[t].arg # V_empty
                   /\ \A i \in 1..Len(log) : log[i].arg # th[t].arg
              THEN Append(log, LogEntry("create", th[t].arg, th[t].snap, FALSE, th[t].res))
              ELSE IF th[t].op = "delete"
              THEN LET Other(e) == e.arg # th[t].arg IN SelectSeq(log, Other)
              ELSE log
    /\ UNCHANGED db

\* predicates and queries of the concurrent scans
ScanPredicates == {NoFilter, Predicate(Some(TRUE), None, None, None, None)}
ScanQueries == {Q_xyz, Q_Palindrome, Q_single_pal}

NextConc ==
    \/ \E t \in Threads, op \in {"create", "get", "delete"}, v \in Values : Call(t, op, v)
    \/ \E t \in Threads, p \in ScanPredicates : Call(t, "list", p)
    \/ \E t \in Threads, q \in ScanQueries : Call(t, "nl", q)
    \/ \E t \in Threads : ScanStep(t)
    \/ \E t \in Threads, now \in Times : CreateStep(t, now)
    \/ \E t \in Threads : GetStep(t)
    \/ \E t \in Threads : DeleteStep(t)
    \/ \E t \in Threads : Finish(t)

SpecConc == Init /\ [][NextConc]_vars

(***************************** properties ************************************)
IsOk(res) == res.kind = "return"
NotFound == HTTPException(404)
DuplicateContent == HTTPException(409)
BadRequest == HTTPException(400)

Key(T) == sha256_hexdigest(T)

\* the store right after request i of the log
Post(i) == IF i < Len(log) THEN log[i + 1].pre ELSE db

IsReq(i, op, T) == log[i].op = op /\ log[i].arg = T

\* no request op(T) strictly between requests i and j
NoneBetween(i, j, op, T) == \A k \in (i + 1)..(j - 1) : ~ IsReq(k, op, T)

\* number of occurrences of each character of T
CharFrequency(T) == [c \in Range(T) |-> Cardinality({i \in 1..Len(T) : T[i] = c})]

\* props is the full derivation of T
Derived(props, T) ==
    /\ props.length = Len(T)
    /\ props.is_palindrome = (str_lower(T) = str_reverse(str_lower(T)))
    /\ props.unique_character = Cardinality(Range(T))
    /\ props.word_count = str_split_count(T)
    /\ props.sha256_hash = Key(T)
    /\ props.character_frequency_map = CharFrequency(T)

\* C1: Round trip. A create(T) of a non-empty T that is not stored succeeds
\* with a record whose value is T, whose id is the hash of T and whose
\* properties are the derivation of T; a get(T) that follows with no
\* delete(T) in between returns that record.
C1_RoundTrip ==
    \A i \in 1..Len(log) :
        (log[i].op = "create" /\ log[i].arg # V_empty
            /\ ~ dict_has(log[i].pre, Key(log[i].arg)))
        => /\ IsOk(log[i].res)
           /\ log[i].res.value.value = log[i].arg
           /\ log[i].res.value.id = Key(log[i].arg)
           /\ Derived(log[i].res.value.properties, log[i].arg)
           /\ \A j \in (i + 1)..Len(log) :
                (IsReq(j, "get", log[i].arg) /\ NoneBetween(i, j, "delete", log[i].arg))
                => log[j].res = log[i].res

\* C2: Duplicate rejection. A create(T) made while T is stored, or made
\* after an earlier create(T) with no delete(T) in between (whatever was
\* requested for other values meanwhile), fails with DuplicateContent and
\* leaves the store as it was.
C2_DuplicateRejected ==
    \A j \in 1..Len(log) :
        (log[j].op = "create" /\ log[j].arg # V_empty
            /\ \/ dict_has(log[j].pre, Key(log[j].arg))
               \/ \E i \in 1..(j - 1) :
                     /\ IsReq(i, "create", log[j].arg)
                     /\ NoneBetween(i, j, "delete", log[j].arg))
        => /\ log[j].res = DuplicateContent
           /\ Post(j) = log[j].pre

\* a create(T) of a non-empty T was requested before request j, with no
\* delete(T) between it and j
CreatedBefore(j, T) ==
    /\ T # V_empty
    /\ \E i \in 1..(j - 1) :
          IsReq(i, "create", T) /\ NoneBetween(i, j, "delete", T)

Satisfies(record, p) ==
    /\ p.is_palindrome # None => record.properties.is_palindrome = p.is_palindrome[1]
    /\ p.min_length # None => record.properties.length >= p.min_length[1]
    /\ p.max_length # None => record.properties.length <= p.max_length[1]
    /\ p.word_count # None => record.properties.word_count = p.word_count[1]
    /\ p.contains_character # None
          => \E k \in 1..Len(record.value) : <<record.value[k]>> = p.contains_character[1]

\* C4: Filter conjunction. list(p) returns a result whose matches are
\* exactly the stored records that satisfy every non-null constraint of p;
\* with the all-null predicate these are all stored records.
C4_FilterConjunction ==
    \A i \in 1..Len(log) :
        log[i].op = "list"
        => /\ IsOk(log[i].res)
           /\ Range(log[i].res.value.data)
                = {r \in Range(dict_values(log[i].pre)) : Satisfies(r, log[i].arg)}
           /\ Len(log[i].res.value.data)
                = Cardinality({r \in Range(dict_values(log[i].pre)) : Satisfies(r, log[i].arg)})

\* two finished create calls of the same value that ran at the same time on
\* a store without that value
ConcurrentCreates(t, u) ==
    /\ t # u
    /\ th[t].pc = "done" /\ th[u].pc = "done"
    /\ th[t].op = "create" /\ th[u].op = "create"
    /\ th[t].arg = th[u].arg /\ th[t].arg # V_empty
    /\ u \in th[t].conc
    /\ ~ th[t].pre /\ ~ th[u].pre

\* C5: Concurrent creates of the same content. Of the create(T) calls that
\* ran concurrently on a store without T exactly one succeeds, every other
\* one observes DuplicateContent, and the store holds the winner's record.
C5_OneCreateWins ==
    \A t, u \in Threads :
        ConcurrentCreates(t, u)
        => /\ IsOk(th[t].res) # IsOk(th[u].res)
           /\ (~ IsOk(th[t].res)) => th[t].res = DuplicateContent
           /\ (~ IsOk(th[u].res)) => th[u].res = DuplicateContent
           /\ dict_get(db, Key(th[t].arg))
                = Some((IF IsOk(th[t].res) THEN th[t].res ELSE th[u].res).value)

\* C6: Derived properties are complete. The properties of every stored
\* record, and the result of every analysis of a non-empty text, are the
\* full derivation of the text: length, palindrome flag, number of distinct
\* characters, word count and the frequency of every character.
C6_PropertiesDerived ==
    /\ \A k \in 1..Len(db) : Derived(db[k].val.properties, db[k].val.value)
    /\ \A i \in 1..Len(log) :
          (log[i].op = "analyze" /\ log[i].arg # V_empty)
          => /\ IsOk(log[i].res)
             /\ Derived(log[i].res.value, log[i].arg)

\* the number N of the first "strings longer than N" of a query, if any
LongerThanNumber(q) == re_search(str_lower(q), P_longer_sp, Range(DigitChars), TRUE)

\* C7: Natural language 'longer than'. Translating a query that contains
\* "strings longer than N" yields a predicate with min_length = N + 1.
C7_LongerThan ==
    \A i \in 1..Len(log) :
        (log[i].op = "nl" /\ LongerThanNumber(log[i].arg) # None)
        => /\ IsOk(log[i].res)
           /\ "min_length" \in DOMAIN log[i].res.value.interpreted_query.parsed_filters
           /\ log[i].res.value.interpreted_query.parsed_filters["min_length"]
                = decimal_value(LongerThanNumber(log[i].arg)[1]) + 1

\* C8: list never fails. Every list call returns a result with matches, count
\* and applied filters, and count is the number of matches, on the empty
\* store and for a predicate that nothing satisfies too.
C8_ListNeverFails ==
    \A i \in 1..Len(log) :
        log[i].op = "list"
        => /\ IsOk(log[i].res)
           /\ DOMAIN log[i].res.value = {"data", "count", "filter_applied"}
           /\ log[i].res.value.count = Len(log[i].res.value.data)

\* C9: Failed operations are no-ops. A request that does not succeed (it
\* raises, whatever the error, or produces no result) leaves the store
\* exactly as it was before the call.
C9_FailedOpsNoOps ==
    \A i \in 1..Len(log) : (~ IsOk(log[i].res)) => Post(i) = log[i].pre

\* a delete answered NotFound and a natural-language query answered
\* UnparseableQuery are in the log
C9_Witness ==
    \E i, j \in 1..Len(log) :
        /\ log[i].op = "delete" /\ log[i].res = NotFound
        /\ log[j].op = "nl" /\ log[j].res = BadRequest

\* C10: Identity invariant. Every store key maps to a record whose id is
\* that key and is the hash of the record's value; no two stored records
\* have the same value; and after create("A") and create("a") on a store
\* holding neither, both are stored under different keys.
C10_Identity ==
    /\ \A k \in 1..Len(db) :
          /\ db[k].val.id = db[k].key
          /\ db[k].key = Key(db[k].val.value)
    /\ \A k, m \in 1..Len(db) : db[k].val.value = db[m].val.value => k = m
    /\ (/\ Len(log) >= 2
        /\ IsReq(Len(log) - 1, "create", V_A)
        /\ IsReq(Len(log), "create", V_a)
        /\ log[Len(log) - 1].pre = EmptyDict)
       => /\ dict_has(db, Key(V_A))
          /\ dict_has(db, Key(V_a))
          /\ Key(V_A) # Key(V_a)

\* the patterns of the translator, as the specification words them
HasWordPattern(q) ==
    str_contains(str_lower(q), P_single_word) \/ str_contains(str_lower(q), P_one_word)

HasPalindromePattern(q) ==
    str_contains(str_lower(q), P_palindromic) \/ str_contains(str_lower(q), P_palindrome)

WordChars == Range(LowerChars) \cup Range(UpperChars) \cup Range(DigitChars) \cup {"_"}

\* the character C of the first "containing the letter C" of a query, if any
LetterOf(q) == re_search(str_lower(q), P_letter \o <<" ">>, WordChars, FALSE)

HasAnyPattern(q) ==
    \/ HasWordPattern(q)
    \/ HasPalindromePattern(q)
    \/ LongerThanNumber(q) # None
    \/ LetterOf(q) # None

ParsedFilters(i) == log[i].res.value.interpreted_query.parsed_filters

\* C11: Unparseable queries. A query with none of the recognized patterns is
\* answered UnparseableQuery, a query with at least one of them is answered
\* with a predicate, and a failed translation iterates over no record.
C11_Unparseable ==
    \A i \in 1..Len(log) :
        log[i].op = "nl"
        => /\ (~ HasAnyPattern(log[i].arg)) => log[i].res = BadRequest
           /\ HasAnyPattern(log[i].arg) => IsOk(log[i].res)
           /\ (~ IsOk(log[i].res)) => ~ log[i].scan

\* C12: Natural language 'containing the letter'. Translating a query that
\* contains "containing the letter C", C a word character, yields a
\* predicate with contains_character = C.
C12_ContainingLetter ==
    \A i \in 1..Len(log) :
        (log[i].op = "nl" /\ LetterOf(log[i].arg) # None)
        => /\ IsOk(log[i].res)
           /\ "contains_character" \in DOMAIN ParsedFilters(i)
           /\ ParsedFilters(i)["contains_character"] = LetterOf(log[i].arg)[1]

\* C13: No empty values. create("") is answered EmptyValue and stores
\* nothing, and no stored record has an empty value.
C13_NoEmptyValues ==
    /\ \A k \in 1..Len(db) : db[k].val.value # V_empty
    /\ \A i \in 1..Len(log) :
          IsReq(i, "create", V_empty)
          => /\ log[i].res = BadRequest
             /\ Post(i) = log[i].pre

\* the structured predicate that carries the parsed filters
ToPredicate(filters) ==
    LET opt(k) == IF k \in DOMAIN filters THEN Some(filters[k]) ELSE None
    IN Predicate(opt("is_palindrome"), opt("min_length"), opt("max_length"),
                 opt("word_count"), opt("contains_character"))

\* C17: Uniform predicate evaluation. On the same store, a natural-language
\* query translated to predicate P and list(P) return the same matches and
\* the same count.
C17_UniformEvaluation ==
    \A i, j \in 1..Len(log) :
        (/\ log[i].op = "nl" /\ IsOk(log[i].res)
         /\ log[j].op = "list"
         /\ log[j].arg = ToPredicate(ParsedFilters(i))
         /\ log[j].pre = log[i].pre)
        => /\ IsOk(log[j].res)
           /\ log[j].res.value.data = log[i].res.value.data
           /\ log[j].res.value.count = log[i].res.value.count

\* C18: Pattern composition. A returned predicate sets a field if and only
\* if that field's pattern occurs in the query, whatever other patterns
\* occur with it.
C18_Composition ==
    \A i \in 1..Len(log) :
        (log[i].op = "nl" /\ IsOk(log[i].res))
        => /\ ("word_count" \in DOMAIN ParsedFilters(i)) = HasWordPattern(log[i].arg)
           /\ ("is_palindrome" \in DOMAIN ParsedFilters(i)) = HasPalindromePattern(log[i].arg)
           /\ ("min_length" \in DOMAIN ParsedFilters(i)) = (LongerThanNumber(log[i].arg) # None)
           /\ ("contains_character" \in DOMAIN ParsedFilters(i)) = (LetterOf(log[i].arg) # None)
           /\ "max_length" \notin DOMAIN ParsedFilters(i)

\* C20: Re-creation after delete. Once create(T) and then delete(T) have
\* been requested and T has no stored record, a further create(T) succeeds
\* (it is not answered DuplicateContent or any other error) and a get(T)
\* that follows returns the new record.
C20_Recreate ==
    \A j \in 1..Len(log) :
        (/\ log[j].op = "create" /\ log[j].arg # V_empty
         /\ ~ dict_has(log[j].pre, Key(log[j].arg))
         /\ \E i, k \in 1..(j - 1) :
               /\ i < k
               /\ IsReq(i, "create", log[j].arg)
               /\ IsReq(k, "delete", log[j].arg)
               /\ NoneBetween(k, j, "create", log[j].arg))
        => /\ IsOk(log[j].res)
           /\ \A m \in (j + 1)..Len(log) :
                 (IsReq(m, "get", log[j].arg) /\ NoneBetween(j, m, "delete", log[j].arg))
                 => log[m].res = log[j].res

\* the handler of a create, get or delete request, run on its own
SeqCall(op, d, v, now) ==
    CASE op = "create" -> create_string(d, StringInput(v), now)
      [] op = "get" -> get_string(d, v)
      [] OTHER -> delete_string(d, v)

\* the outcomes and the final store of call o1 followed by call o2 on store d
SerialOutcome(d, o1, o2, v, now) ==
    LET a == SeqCall(o1, d, v, now)
        b == SeqCall(o2, a.db, v, now)
    IN [first |-> a.res, second |-> b.res, db |-> b.db]

\* a finished delete (thread t) and a finished create, get or delete of the
\* same value (thread u) that ran at the same time, with no third call
OverlappedPair(t, u) ==
    /\ t # u
    /\ th[t].pc = "done" /\ th[u].pc = "done"
    /\ th[t].op = "delete" /\ th[u].op \in {"create", "get", "delete"}
    /\ th[t].arg = th[u].arg
    /\ u \in th[t].conc /\ t \in th[u].conc
    /\ th[t].nconc = 1 /\ th[u].nconc = 1

\* the store when the earlier of the two calls arrived
BaseStore(t, u) == IF th[t].first THEN th[t].snap ELSE th[u].snap

\* a create(T) of a non-empty T has finished and no delete(T) has finished
\* since
CreateFinished(T) == T # V_empty /\ \E i \in 1..Len(log) : IsReq(i, "create", T)

ScanWithMutation(t, u) ==
    /\ t # u
    /\ th[t].pc = "done" /\ th[t].op \in {"list", "nl"}
    /\ th[u].pc # "idle" /\ th[u].op \in {"create", "delete"}
    /\ u \in th[t].conc /\ t \in th[u].conc

\* a record with all four fields, keyed by the hash of its value
CompleteRecord(r) ==
    /\ DOMAIN r = {"id", "value", "properties", "created_at"}
    /\ r.id = Key(r.value)

\* C16: Scans under concurrent mutation. A list or natural-language query
\* that ran concurrently with a create or delete call ends with a result
\* (or with the rejection of its query, an HTTP error), never with another
\* exception or without a result, and every record it returns is complete.
C16_ScanCompletes ==
    \A t, u \in Threads :
        ScanWithMutation(t, u)
        => \/ th[t].res.kind = "raise" /\ th[t].res.exc = "HTTPException"
           \/ /\ IsOk(th[t].res)
              /\ \A k \in 1..Len(th[t].res.value.data) :
                    CompleteRecord(th[t].res.value.data[k])

====
